---- MODULE Spec2Model ----
(***************************************************************************)
(* Identity reconciliation: the contacts table (Database) and the          *)
(* IdentityReconciliationService.identify decision procedure.              *)
(*                                                                         *)
(* Emails and phone numbers are the integers 1..NumEmails / 1..NumPhones;  *)
(* 0 (Absent) stands for undefined / NULL, which is falsy in the code's    *)
(* `if (email)` and `!email` tests.  A contact id is its row number        *)
(* (INTEGER PRIMARY KEY AUTOINCREMENT, no row is ever deleted).            *)
(* createdAt / updatedAt are datetime('now'): the value of a clock of      *)
(* one-second resolution, so contacts created within one second carry      *)
(* equal createdAt, and ORDER BY createdAt ASC leaves their relative order *)
(* to the storage engine.                                                  *)
(***************************************************************************)
EXTENDS Integers, Sequences, FiniteSets, TLC

\* ------------------------------------------------------------------ bounds
MaxContacts == 2
MaxContactsSpaced == 4
NumEmails == 2
NumPhones == 2
MaxClock == 1
MaxClockSpaced == 3
MaxContactsSameSecond == 3
MaxCalls == 2
MaxContactsConcurrent == 3
MaxClockConcurrent == 2
MaxContactsSoftDelete == 2
MaxSoftDeleted == 1
NumValuesFair == 1

\* --------------------------------------------------------------- constants
PRIMARY == "primary"
SECONDARY == "secondary"
Absent == 0

Emails == 1..NumEmails
Phones == 1..NumPhones

VARIABLES
  contacts,   \* the contacts table, row i has id i
  now,        \* the clock behind datetime('now')
  request,    \* the last Identify request
  response,   \* what the last Identify call returned or threw
  path,       \* branch taken by the last call
  before,     \* the contacts table when the last call started
  primaries,  \* ids returned by findPrimaryContacts in the last call
  reply,      \* HTTP status and error label sent for the last request
  calls,      \* the identify calls in flight, each at one of its awaits
  base        \* the contacts table when the calls in flight began

vars == <<contacts, now, request, response, path, before, primaries, reply,
          calls, base>>

\* ------------------------------------------------------------------ helpers
Min(S) == CHOOSE x \in S : \A y \in S : x <= y

Ids(cs) == [i \in 1..Len(cs) |-> cs[i].id]

RECURSIVE OrderIds(_, _)
\* every sequence over the ids S that is ascending in createdAt: rows of
\* equal createdAt come in whatever order the engine's plan yields
OrderIds(table, S) ==
  IF S = {} THEN {<<>>}
  ELSE UNION { {<<i>> \o s : s \in OrderIds(table, S \ {i})} :
               i \in {x \in S : \A y \in S : table[x].createdAt <= table[y].createdAt} }

\* ORDER BY createdAt ASC over the selected rows, each through rowToContact
OrderByCreatedAt(table, S) ==
  {[k \in 1..Len(s) |-> table[s[k]]] : s \in OrderIds(table, S)}

\* ------------------------------------------------------------ the Database
createContact(table, contactData, t) ==
  Append(table, [id             |-> Len(table) + 1,
                 phoneNumber    |-> contactData.phoneNumber,
                 email          |-> contactData.email,
                 linkedId       |-> contactData.linkedId,
                 linkPrecedence |-> contactData.linkPrecedence,
                 createdAt      |-> t,
                 updatedAt      |-> t,
                 deletedAt      |-> Absent])

\* findContactsByEmailOrPhone as it would be if the phone number were
\* matched only for a request without an email
findContactsByEmailOrPhone_PhoneOnlyWithoutEmail(table, email, phoneNumber) ==
  OrderByCreatedAt(table, {i \in 1..Len(table) :
      /\ table[i].deletedAt = Absent
      /\ \/ (email # Absent /\ table[i].email = email)
         \/ (email = Absent /\ phoneNumber # Absent
               /\ table[i].phoneNumber = phoneNumber)})

findContactsByEmailOrPhone(table, email, phoneNumber) ==
  OrderByCreatedAt(table, {i \in 1..Len(table) :
      /\ table[i].deletedAt = Absent
      /\ \/ (email # Absent /\ table[i].email = email)
         \/ (phoneNumber # Absent /\ table[i].phoneNumber = phoneNumber)})

\* findAllLinkedContacts as it would be without "AND deletedAt IS NULL"
findAllLinkedContacts_IncludesDeleted(table, primaryContactId) ==
  OrderByCreatedAt(table, {i \in 1..Len(table) :
      table[i].id = primaryContactId \/ table[i].linkedId = primaryContactId})

findAllLinkedContacts(table, primaryContactId) ==
  OrderByCreatedAt(table, {i \in 1..Len(table) :
      /\ (table[i].id = primaryContactId \/ table[i].linkedId = primaryContactId)
      /\ table[i].deletedAt = Absent})

\* updateContactToSecondary as it would be if the UPDATE also cleared the
\* email of the converted contact
updateContactToSecondary_ClearsEmail(table, contactId, primaryContactId, t) ==
  [i \in 1..Len(table) |->
     IF table[i].id = contactId
     THEN [table[i] EXCEPT !.linkedId = primaryContactId,
                           !.linkPrecedence = SECONDARY,
                           !.email = Absent,
                           !.updatedAt = t]
     ELSE table[i]]

updateContactToSecondary(table, contactId, primaryContactId, t) ==
  [i \in 1..Len(table) |->
     IF table[i].id = contactId
     THEN [table[i] EXCEPT !.linkedId = primaryContactId,
                           !.linkPrecedence = SECONDARY,
                           !.updatedAt = t]
     ELSE table[i]]

\* updateLinkedContactsPrimaryId as it would be if the contacts linked to
\* the old primary were released as primaries instead of being repointed
updateLinkedContactsPrimaryId_Releases(table, oldPrimaryId, newPrimaryId, t) ==
  [i \in 1..Len(table) |->
     IF table[i].linkedId = oldPrimaryId /\ table[i].id # oldPrimaryId
     THEN [table[i] EXCEPT !.linkedId = Absent, !.linkPrecedence = PRIMARY,
                           !.updatedAt = t]
     ELSE table[i]]

updateLinkedContactsPrimaryId(table, oldPrimaryId, newPrimaryId, t) ==
  [i \in 1..Len(table) |->
     IF table[i].linkedId = oldPrimaryId
     THEN [table[i] EXCEPT !.linkedId = newPrimaryId, !.updatedAt = t]
     ELSE table[i]]

\* ------------------------------------------------------------- the service
RECURSIVE findPrimaryLoop(_, _, _, _)
findPrimaryLoop(cs, i, primaryContacts, primaryIds) ==
  IF i > Len(cs) THEN primaryContacts
  ELSE LET contact == cs[i] IN
    IF contact.linkPrecedence = PRIMARY
    THEN findPrimaryLoop(cs, i + 1, Append(primaryContacts, contact),
                         primaryIds \cup {contact.id})
    ELSE IF contact.linkedId # Absent /\ contact.linkedId \notin primaryIds
    THEN LET found == {j \in 1..Len(cs) : cs[j].id = contact.linkedId} IN
         IF found # {}
         THEN findPrimaryLoop(cs, i + 1,
                              Append(primaryContacts, cs[Min(found)]),
                              primaryIds \cup {cs[Min(found)].id})
         ELSE findPrimaryLoop(cs, i + 1, primaryContacts, primaryIds)
    ELSE findPrimaryLoop(cs, i + 1, primaryContacts, primaryIds)

findPrimaryContacts(cs) == findPrimaryLoop(cs, 1, <<>>, {})

\* needsSecondaryContact as it would be if only the email were compared
needsSecondaryContact_EmailOnly(primaryContact, email, phoneNumber) ==
  email # Absent /\ primaryContact.email # email

needsSecondaryContact(primaryContact, email, phoneNumber) ==
  LET hasEmail == email = Absent \/ primaryContact.email = email
      hasPhone == phoneNumber = Absent \/ primaryContact.phoneNumber = phoneNumber
      hasNewEmail == email # Absent /\ primaryContact.email # email
      hasNewPhone == phoneNumber # Absent /\ primaryContact.phoneNumber # phoneNumber
  IN IF hasEmail /\ hasPhone THEN FALSE ELSE hasNewEmail \/ hasNewPhone

\* createSecondaryContact as it would be if the INSERT were issued twice
createSecondaryContact_InsertsTwice(table, email, phoneNumber, primaryContactId, t) ==
  LET contactData == [linkPrecedence |-> SECONDARY,
                      email          |-> email,
                      phoneNumber    |-> phoneNumber,
                      linkedId       |-> primaryContactId]
  IN createContact(createContact(table, contactData, t), contactData, t)

createSecondaryContact(table, email, phoneNumber, primaryContactId, t) ==
  createContact(table, [linkPrecedence |-> SECONDARY,
                        email          |-> email,
                        phoneNumber    |-> phoneNumber,
                        linkedId       |-> primaryContactId], t)

\* hasNewInformation as it would be if the request were compared with the
\* first contact of the list only
hasNewInformation_FirstContactOnly(cs, email, phoneNumber) ==
  IF email = Absent /\ phoneNumber = Absent THEN FALSE
  ELSE \/ (email # Absent /\ cs[1].email # email)
       \/ (phoneNumber # Absent /\ cs[1].phoneNumber # phoneNumber)

hasNewInformation(cs, email, phoneNumber) ==
  IF email = Absent /\ phoneNumber = Absent THEN FALSE
  ELSE LET existingEmails == {cs[i].email : i \in 1..Len(cs)} \ {Absent}
           existingPhones == {cs[i].phoneNumber : i \in 1..Len(cs)} \ {Absent}
           hasNewEmail == email # Absent /\ email \notin existingEmails
           hasNewPhone == phoneNumber # Absent /\ phoneNumber \notin existingPhones
       IN hasNewEmail \/ hasNewPhone

\* --------------------------------------------------------------- responses
NoResponse ==
  [status |-> "none", error |-> "", primaryContactId |-> 0,
   emails |-> <<>>, phoneNumbers |-> <<>>, secondaryContactIds |-> <<>>]

Ok(primaryContactId, emails, phoneNumbers, secondaryContactIds) ==
  [status |-> "ok", error |-> "", primaryContactId |-> primaryContactId,
   emails |-> emails, phoneNumbers |-> phoneNumbers,
   secondaryContactIds |-> secondaryContactIds]

Thrown(message) ==
  [status |-> "error", error |-> message, primaryContactId |-> 0,
   emails |-> <<>>, phoneNumbers |-> <<>>, secondaryContactIds |-> <<>>]

\* the controller answered without calling the service
Rejected(message) ==
  [status |-> "invalid", error |-> message, primaryContactId |-> 0,
   emails |-> <<>>, phoneNumbers |-> <<>>, secondaryContactIds |-> <<>>]

RECURSIVE pushUnique(_, _, _, _)
\* the loop over secondaryContacts: append field f of each contact from
\* index i on unless it is empty or already included
pushUnique(acc, cs, i, f) ==
  IF i > Len(cs) THEN acc
  ELSE IF cs[i][f] # Absent /\ ~(\E k \in 1..Len(acc) : acc[k] = cs[i][f])
       THEN pushUnique(Append(acc, cs[i][f]), cs, i + 1, f)
       ELSE pushUnique(acc, cs, i + 1, f)

buildResponseForPrimary(allLinkedContacts) ==
  LET isPrimary(c) == c.linkPrecedence = PRIMARY
      isSecondary(c) == c.linkPrecedence = SECONDARY
      primaryList == SelectSeq(allLinkedContacts, isPrimary)
      secondaryContacts == SelectSeq(allLinkedContacts, isSecondary)
  IN IF Len(primaryList) = 0 THEN Thrown("Primary contact not found")
     ELSE LET primaryContact == primaryList[1]
              emails0 == IF primaryContact.email # Absent
                         THEN <<primaryContact.email>> ELSE <<>>
              phones0 == IF primaryContact.phoneNumber # Absent
                         THEN <<primaryContact.phoneNumber>> ELSE <<>>
          IN Ok(primaryContact.id,
                pushUnique(emails0, secondaryContacts, 1, "email"),
                pushUnique(phones0, secondaryContacts, 1, "phoneNumber"),
                Ids(secondaryContacts))

\* createNewPrimaryContact as it would be if phoneNumbers were guarded by
\* the email instead of the phone number
createNewPrimaryContact_PhoneGuardedByEmail(table, email, phoneNumber, t) ==
  LET table1 == createContact(table, [linkPrecedence |-> PRIMARY,
                                      email          |-> email,
                                      phoneNumber    |-> phoneNumber,
                                      linkedId       |-> Absent], t)
      newContact == table1[Len(table1)]
  IN [table    |-> table1,
      response |-> Ok(newContact.id,
                      IF email # Absent THEN <<email>> ELSE <<>>,
                      IF email # Absent THEN <<phoneNumber>> ELSE <<>>,
                      <<>>)]

createNewPrimaryContact(table, email, phoneNumber, t) ==
  LET table1 == createContact(table, [linkPrecedence |-> PRIMARY,
                                      email          |-> email,
                                      phoneNumber    |-> phoneNumber,
                                      linkedId       |-> Absent], t)
      newContact == table1[Len(table1)]
  IN [table    |-> table1,
      response |-> Ok(newContact.id,
                      IF email # Absent THEN <<email>> ELSE <<>>,
                      IF phoneNumber # Absent THEN <<phoneNumber>> ELSE <<>>,
                      <<>>)]

RECURSIVE insertByCreatedAt(_, _)
\* c goes behind every element that does not compare greater (stable)
insertByCreatedAt(s, c) ==
  IF s = <<>> THEN <<c>>
  ELSE IF Head(s).createdAt - c.createdAt <= 0
       THEN <<Head(s)>> \o insertByCreatedAt(Tail(s), c)
       ELSE <<c>> \o s

RECURSIVE sortByCreatedAt(_)
\* Array.prototype.sort((a, b) => a.createdAt - b.createdAt), a stable sort
sortByCreatedAt(cs) ==
  IF cs = <<>> THEN <<>>
  ELSE insertByCreatedAt(sortByCreatedAt(SubSeq(cs, 1, Len(cs) - 1)), cs[Len(cs)])

RECURSIVE mergeLoop(_, _, _, _, _)
\* for (const contact of contactsToMerge) { convert; repoint }
mergeLoop(table, contactsToMerge, i, oldestPrimaryId, t) ==
  IF i > Len(contactsToMerge) THEN table
  ELSE mergeLoop(
         updateLinkedContactsPrimaryId(
           updateContactToSecondary(table, contactsToMerge[i].id, oldestPrimaryId, t),
           contactsToMerge[i].id, oldestPrimaryId, t),
         contactsToMerge, i + 1, oldestPrimaryId, t)

\* -------------------------------------------------- identify, as outcomes
\* What one call leaves behind: the table, what it returned or threw, the
\* branch it took and the list findPrimaryContacts gave it.
Outcome(table, resp, branch, primaryContacts) ==
  [table |-> table, response |-> resp, path |-> branch,
   primaries |-> Ids(primaryContacts)]

mergePrimaryContacts(table, primaryContacts, email, phoneNumber, t) ==
  LET sorted == sortByCreatedAt(primaryContacts) IN
  IF Len(sorted) = 0
  THEN {Outcome(table, Thrown("No primary contact found to merge"), "merge",
                primaryContacts)}
  ELSE LET oldestPrimary == sorted[1]
           contactsToMerge == Tail(sorted)
           table1 == mergeLoop(table, contactsToMerge, 1, oldestPrimary.id, t)
           \* hasNewInformation only builds sets from the list, so every
           \* order the lookup may return gives the same answer
           allLinkedContacts ==
             CHOOSE cs \in findAllLinkedContacts(table1, oldestPrimary.id) : TRUE
           hasNewInfo == hasNewInformation(allLinkedContacts, email, phoneNumber)
           table2 == IF hasNewInfo
                     THEN createSecondaryContact(table1, email, phoneNumber,
                                                 oldestPrimary.id, t)
                     ELSE table1
       IN {Outcome(table2, buildResponseForPrimary(linked), "merge", primaryContacts) :
             linked \in findAllLinkedContacts(table2, oldestPrimary.id)}

\* the single-primary branch as it would be if the request were compared
\* with the whole cluster of the primary, as the merge branch does
attachToPrimary_ComparesCluster(table, primaryContacts, email, phoneNumber, t) ==
  LET primaryContact == primaryContacts[1]
      cluster == CHOOSE cs \in findAllLinkedContacts(table, primaryContact.id) : TRUE
      needed == hasNewInformation(cluster, email, phoneNumber)
      table1 == IF needed
                THEN createSecondaryContact(table, email, phoneNumber,
                                            primaryContact.id, t)
                ELSE table
  IN {Outcome(table1, buildResponseForPrimary(linked),
              IF needed THEN "attach" ELSE "duplicate", primaryContacts) :
        linked \in findAllLinkedContacts(table1, primaryContact.id)}

attachToPrimary(table, primaryContacts, email, phoneNumber, t) ==
  LET primaryContact == primaryContacts[1]
      needed == needsSecondaryContact(primaryContact, email, phoneNumber)
      table1 == IF needed
                THEN createSecondaryContact(table, email, phoneNumber,
                                            primaryContact.id, t)
                ELSE table
  IN {Outcome(table1, buildResponseForPrimary(linked),
              IF needed THEN "attach" ELSE "duplicate", primaryContacts) :
        linked \in findAllLinkedContacts(table1, primaryContact.id)}

\* messages of the errors the sqlite3 driver rejects a call with
SyntaxError == "SQLITE_ERROR: near \")\": syntax error"
HandleClosed == "SQLITE_MISUSE: Database handle is closed"
ForeignKeyFailed == "SQLITE_CONSTRAINT: FOREIGN KEY constraint failed"

identify(table, email, phoneNumber, t) ==
  IF email = Absent /\ phoneNumber = Absent
  THEN \* the lookup's WHERE clause ends in "AND ()": the statement is rejected
       {Outcome(table, Thrown(SyntaxError), "lookup", <<>>)}
  ELSE
  UNION {
    IF Len(primaryContacts) = 1
    THEN attachToPrimary(table, primaryContacts, email, phoneNumber, t)
    ELSE mergePrimaryContacts(table, primaryContacts, email, phoneNumber, t)
    : primaryContacts \in
        {findPrimaryContacts(existingContacts) :
           existingContacts \in
             findContactsByEmailOrPhone(table, email, phoneNumber) \ {<<>>}} }
  \cup
  (IF <<>> \in findContactsByEmailOrPhone(table, email, phoneNumber)
   THEN LET created == createNewPrimaryContact(table, email, phoneNumber, t)
        IN {Outcome(created.table, created.response, "create", <<>>)}
   ELSE {})

\* ------------------------------------------- the controller's HTTP answers
\* error.message.includes(needle), over the messages that occur
Includes(message, needle) ==
  \/ message = needle
  \/ (message = ForeignKeyFailed /\ needle = "SQLITE_CONSTRAINT")

Http(status, error) == [status |-> status, error |-> error]

NoReply == Http(0, "")

errorHandler(message) ==
  IF Includes(message, "SQLITE_CONSTRAINT")
  THEN Http(400, "Database constraint violation")
  ELSE IF Includes(message, "Database error")
  THEN Http(500, "Database error")
  ELSE Http(500, "Internal server error")

\* validateIdentifyRequest as it would be without .or('email', 'phoneNumber')
validateIdentifyRequest_NothingRequired(email, phoneNumber) == TRUE

\* identifyRequestSchema: both keys optional, .or('email', 'phoneNumber');
\* the values of Emails and Phones are well-formed strings
validateIdentifyRequest(email, phoneNumber) ==
  email # Absent \/ phoneNumber # Absent

\* res.status(200).json(result), or next(error) into errorHandler
replyFor(resp) ==
  IF resp.status = "ok" THEN Http(200, "") ELSE errorHandler(resp.error)

\* ---------------------------------------------------------------- actions
CallIds == 1..MaxCalls

\* a call of identify that has not begun
IdleCall ==
  [pc |-> "idle", email |-> Absent, phoneNumber |-> Absent, path |-> "none",
   primaryIds |-> <<>>, primaryId |-> 0, contactsToMerge |-> <<>>,
   response |-> NoResponse, rejected |-> ""]

Init ==
  /\ contacts = <<>>
  /\ now = 0
  /\ request = [email |-> Absent, phoneNumber |-> Absent]
  /\ response = NoResponse
  /\ path = "none"
  /\ before = <<>>
  /\ primaries = <<>>
  /\ reply = NoReply
  /\ calls = [c \in CallIds |-> IdleCall]
  /\ base = <<>>

\* Values are only ever compared for equality, so a request names an email
\* (a phone) that is stored already or the least one that is not.
UsedEmails(table) == {table[i].email : i \in 1..Len(table)} \ {Absent}
UsedPhones(table) == {table[i].phoneNumber : i \in 1..Len(table)} \ {Absent}
RequestEmails(table) ==
  {Absent} \cup {e \in Emails : \A k \in 1..(e - 1) : k \in UsedEmails(table)}
RequestPhones(table) ==
  {Absent} \cup {p \in Phones : \A k \in 1..(p - 1) : k \in UsedPhones(table)}

\* The controller validates one request and, when it is valid, the service
\* handles it from lookup to return, while no other request is being
\* handled; maxContacts caps the size the table may reach.
IdentifyUpTo(maxContacts) ==
  /\ response.status = "none"
  /\ \E email \in RequestEmails(contacts), phoneNumber \in RequestPhones(contacts) :
       /\ request' = [email |-> email, phoneNumber |-> phoneNumber]
       /\ before' = contacts
       /\ UNCHANGED <<now, calls, base>>
       /\ IF ~validateIdentifyRequest(email, phoneNumber)
          THEN /\ response' = Rejected("Validation failed")
               /\ reply' = Http(400, "Validation failed")
               /\ path' = "invalid"
               /\ primaries' = <<>>
               /\ UNCHANGED contacts
          ELSE \E o \in identify(contacts, email, phoneNumber, now) :
                 /\ Len(o.table) <= maxContacts
                 /\ contacts' = o.table
                 /\ response' = o.response
                 /\ reply' = replyFor(o.response)
                 /\ path' = o.path
                 /\ primaries' = o.primaries

Identify == IdentifyUpTo(MaxContacts)

\* a request that arrives when every stored contact was created in an
\* earlier second, so that no two contacts ever share a createdAt
IdentifySpaced ==
  /\ \A i \in 1..Len(contacts) : contacts[i].createdAt < now
  /\ IdentifyUpTo(MaxContactsSpaced)

\* the controller hands the result (or the error) to the client; the next
\* request can be taken
Respond ==
  /\ response.status # "none"
  /\ request' = [email |-> Absent, phoneNumber |-> Absent]
  /\ response' = NoResponse
  /\ path' = "none"
  /\ before' = <<>>
  /\ primaries' = <<>>
  /\ reply' = NoReply
  /\ UNCHANGED <<contacts, now, calls, base>>

\* a second passes on the clock between two requests
TickUpTo(maxClock) ==
  /\ response.status = "none"
  /\ now < maxClock
  /\ now' = now + 1
  /\ UNCHANGED <<contacts, request, response, path, before, primaries, reply,
                 calls, base>>

Tick == TickUpTo(MaxClock)

TickSpaced == TickUpTo(MaxClockSpaced)

Next == Identify \/ Respond \/ Tick

\* requests arrive at any time: contacts created within one second share
\* their createdAt
Spec == Init /\ [][Next]_vars

NextSpaced == IdentifySpaced \/ Respond \/ TickSpaced

\* requests arrive at least a second apart: createdAt is strictly
\* increasing in id
SpecSpaced == Init /\ [][NextSpaced]_vars

\* A valid request during which the driver rejects a storage call: the
\* lookup on a closed handle, or the INSERT of the new primary on a closed
\* handle or on a constraint.  The rejected statement changes no row, and
\* the error reaches errorHandler through next(error).
IdentifyStorageFailure ==
  /\ response.status = "none"
  /\ \E email \in RequestEmails(contacts), phoneNumber \in RequestPhones(contacts) :
       /\ validateIdentifyRequest(email, phoneNumber)
       /\ request' = [email |-> email, phoneNumber |-> phoneNumber]
       /\ \E failure \in
              {[at |-> "lookup", message |-> HandleClosed]}
              \cup (IF <<>> \in findContactsByEmailOrPhone(contacts, email, phoneNumber)
                    THEN {[at |-> "create", message |-> HandleClosed],
                          [at |-> "create", message |-> ForeignKeyFailed]}
                    ELSE {}) :
            /\ response' = Thrown(failure.message)
            /\ reply' = replyFor(Thrown(failure.message))
            /\ path' = failure.at
  /\ before' = contacts
  /\ primaries' = <<>>
  /\ UNCHANGED <<contacts, now, calls, base>>

NextFaulty == Identify \/ IdentifyStorageFailure \/ Respond \/ Tick

\* requests arrive at any time and storage calls may fail
SpecFaulty == Init /\ [][NextFaulty]_vars

\* a burst of requests handled within one second of the clock
IdentifySameSecond == IdentifyUpTo(MaxContactsSameSecond)

NextSameSecond == IdentifySameSecond \/ Respond

\* every contact is created within the same second: all createdAt are equal
SpecSameSecond == Init /\ [][NextSameSecond]_vars

\* The schema keeps a deletedAt column that every SELECT filters on and that
\* no statement of the service writes.  A row is soft-deleted by another
\* hand on the database file, between two requests.  Only whether the
\* column is NULL is ever read, so one value stands for every date.
SoftDelete ==
  /\ response.status = "none"
  /\ Cardinality({i \in 1..Len(contacts) : contacts[i].deletedAt # Absent})
       < MaxSoftDeleted
  /\ \E i \in 1..Len(contacts) :
       /\ contacts[i].deletedAt = Absent
       /\ contacts' = [contacts EXCEPT ![i].deletedAt = 1]
  /\ UNCHANGED <<now, request, response, path, before, primaries, reply,
                 calls, base>>

IdentifySoftDelete ==
  /\ \A i \in 1..Len(contacts) : contacts[i].createdAt < now
  /\ IdentifyUpTo(MaxContactsSoftDelete)

NextSoftDelete == IdentifySoftDelete \/ SoftDelete \/ Respond \/ TickSpaced

\* requests arrive at least a second apart and rows are soft-deleted
\* between them
SpecSoftDelete == Init /\ [][NextSoftDelete]_vars

\* ------------------------------------------- identify, await by await
\* Several calls of identify are in flight.  A call runs from one await to
\* the next in one step: the storage call it awaited, then the synchronous
\* code up to the next await.  Between two steps of a call any step of
\* another call may happen.
sequential == <<request, response, path, before, primaries, reply>>

InFlight == {c \in CallIds : calls[c].pc \notin {"idle", "done"}}

\* a contact is created in a later second than every stored contact, while
\* the table has room
LaterSecond ==
  /\ Len(contacts) < MaxContactsConcurrent
  /\ \A i \in 1..Len(contacts) : contacts[i].createdAt < now

\* values stored or carried by a call that has begun
KnownEmails == UsedEmails(contacts) \cup ({calls[c].email : c \in CallIds} \ {Absent})
KnownPhones == UsedPhones(contacts) \cup ({calls[c].phoneNumber : c \in CallIds} \ {Absent})

\* the controller takes a valid request and calls identify, which awaits
\* its lookup; calls begin in the order of their numbers
Begin(c) ==
  /\ calls[c].pc = "idle"
  /\ \A d \in 1..(c - 1) : calls[d].pc # "idle"
  /\ \E email \in {Absent} \cup {e \in Emails : \A k \in 1..(e - 1) : k \in KnownEmails},
        phoneNumber \in {Absent} \cup {q \in Phones : \A k \in 1..(q - 1) : k \in KnownPhones} :
       /\ validateIdentifyRequest(email, phoneNumber)
       /\ calls' = [calls EXCEPT ![c] =
                      [IdleCall EXCEPT !.pc = "lookup", !.email = email,
                                       !.phoneNumber = phoneNumber]]
  /\ base' = IF \A d \in CallIds : calls[d].pc = "idle" THEN contacts ELSE base
  /\ UNCHANGED <<contacts, now, sequential>>

\* what the synchronous code after the lookup decides
afterLookup(call, existingContacts) ==
  IF Len(existingContacts) = 0
  THEN [call EXCEPT !.pc = "create", !.path = "create"]
  ELSE LET primaryContacts == findPrimaryContacts(existingContacts) IN
    IF Len(primaryContacts) = 1
    THEN LET needed == needsSecondaryContact(primaryContacts[1], call.email,
                                             call.phoneNumber)
         IN [call EXCEPT !.pc = IF needed THEN "attach" ELSE "build",
                         !.path = IF needed THEN "attach" ELSE "duplicate",
                         !.primaryIds = Ids(primaryContacts),
                         !.primaryId = primaryContacts[1].id]
    ELSE LET sorted == sortByCreatedAt(primaryContacts) IN
      IF Len(sorted) = 0
      THEN [call EXCEPT !.pc = "done", !.path = "merge",
                        !.response = Thrown("No primary contact found to merge")]
      ELSE [call EXCEPT !.pc = "convert", !.path = "merge",
                        !.primaryIds = Ids(primaryContacts),
                        !.primaryId = sorted[1].id,
                        !.contactsToMerge = Ids(Tail(sorted))]

\* await findContactsByEmailOrPhone
Lookup(c) ==
  /\ calls[c].pc = "lookup"
  /\ \E existingContacts \in
         findContactsByEmailOrPhone(contacts, calls[c].email, calls[c].phoneNumber) :
       calls' = [calls EXCEPT ![c] = afterLookup(calls[c], existingContacts)]
  /\ UNCHANGED <<contacts, now, base, sequential>>

\* await createContact, in createNewPrimaryContact
CreatePrimary(c) ==
  /\ calls[c].pc = "create"
  /\ LaterSecond
  /\ LET created == createNewPrimaryContact(contacts, calls[c].email,
                                             calls[c].phoneNumber, now)
     IN /\ contacts' = created.table
        /\ calls' = [calls EXCEPT ![c].pc = "done",
                                  ![c].response = created.response]
  /\ UNCHANGED <<now, base, sequential>>

\* await createSecondaryContact, with one primary found
AttachSecondary(c) ==
  /\ calls[c].pc = "attach"
  /\ LaterSecond
  /\ contacts' = createSecondaryContact(contacts, calls[c].email,
                                         calls[c].phoneNumber, calls[c].primaryId, now)
  /\ calls' = [calls EXCEPT ![c].pc = "build"]
  /\ UNCHANGED <<now, base, sequential>>

\* await updateContactToSecondary, in the loop of mergePrimaryContacts
Convert(c) ==
  /\ calls[c].pc = "convert"
  /\ contacts' = updateContactToSecondary(contacts, Head(calls[c].contactsToMerge),
                                           calls[c].primaryId, now)
  /\ calls' = [calls EXCEPT ![c].pc = "repoint"]
  /\ UNCHANGED <<now, base, sequential>>

\* await updateLinkedContactsPrimaryId, in the loop of mergePrimaryContacts
\* the loop of mergePrimaryContacts as it would be if it never moved on to
\* the next contact to merge
Repoint_SameContactAgain(c) ==
  /\ calls[c].pc = "repoint"
  /\ contacts' = updateLinkedContactsPrimaryId(contacts, Head(calls[c].contactsToMerge),
                                                calls[c].primaryId, now)
  /\ calls' = [calls EXCEPT ![c].pc = "convert"]
  /\ UNCHANGED <<now, base, sequential>>

Repoint(c) ==
  /\ calls[c].pc = "repoint"
  /\ contacts' = updateLinkedContactsPrimaryId(contacts, Head(calls[c].contactsToMerge),
                                                calls[c].primaryId, now)
  /\ calls' = [calls EXCEPT
                 ![c].contactsToMerge = Tail(calls[c].contactsToMerge),
                 ![c].pc = IF Tail(calls[c].contactsToMerge) = <<>>
                           THEN "check" ELSE "convert"]
  /\ UNCHANGED <<now, base, sequential>>

\* await findAllLinkedContacts, then hasNewInformation
CheckNewInformation(c) ==
  /\ calls[c].pc = "check"
  /\ \E allLinkedContacts \in findAllLinkedContacts(contacts, calls[c].primaryId) :
       calls' = [calls EXCEPT ![c].pc =
                   IF hasNewInformation(allLinkedContacts, calls[c].email,
                                        calls[c].phoneNumber)
                   THEN "append" ELSE "build"]
  /\ UNCHANGED <<contacts, now, base, sequential>>

\* await createSecondaryContact, after a merge
AppendSecondary(c) ==
  /\ calls[c].pc = "append"
  /\ LaterSecond
  /\ contacts' = createSecondaryContact(contacts, calls[c].email,
                                         calls[c].phoneNumber, calls[c].primaryId, now)
  /\ calls' = [calls EXCEPT ![c].pc = "build"]
  /\ UNCHANGED <<now, base, sequential>>

\* await findAllLinkedContacts, in buildResponseForPrimary
BuildResponse(c) ==
  /\ calls[c].pc = "build"
  /\ \E allLinkedContacts \in findAllLinkedContacts(contacts, calls[c].primaryId) :
       calls' = [calls EXCEPT ![c].pc = "done",
                              ![c].response = buildResponseForPrimary(allLinkedContacts)]
  /\ UNCHANGED <<contacts, now, base, sequential>>

\* every call that has begun has been answered
Settle ==
  /\ InFlight = {}
  /\ \E c \in CallIds : calls[c].pc = "done"
  /\ calls' = [c \in CallIds |-> IdleCall]
  /\ base' = <<>>
  /\ UNCHANGED <<contacts, now, sequential>>

\* the clock reaches the next second once a contact carries the current one
TickConcurrent ==
  /\ now < MaxClockConcurrent
  /\ \E i \in 1..Len(contacts) : contacts[i].createdAt = now
  /\ now' = now + 1
  /\ UNCHANGED <<contacts, calls, base, sequential>>

NextConcurrent ==
  \/ \E c \in CallIds :
       \/ Begin(c) \/ Lookup(c) \/ CreatePrimary(c) \/ AttachSecondary(c)
       \/ Convert(c) \/ Repoint(c) \/ CheckNewInformation(c)
       \/ AppendSecondary(c) \/ BuildResponse(c)
  \/ Settle
  \/ TickConcurrent

\* calls of identify overlap, their storage calls interleaved in any
\* order; no two contacts are created within the same second
SpecConcurrent == Init /\ [][NextConcurrent]_vars

\* ------------------------------------------ storage calls that reject
\* identify as it would be if it caught the rejection of a storage call and
\* went on to build the response
afterFailure_CarriesOn(call, message) ==
  [call EXCEPT !.pc = "build", !.rejected = message]

\* The awaited promise rejects: the error leaves identify, which has no
\* try/catch, and reaches the controller's catch; the call is over.
afterFailure(call, message) ==
  [call EXCEPT !.pc = "done", !.rejected = message, !.response = Thrown(message)]

\* one request is handled at a time
BeginAlone(c) ==
  /\ \A d \in CallIds : calls[d].pc = "idle"
  /\ Begin(c)

\* the statement of the awaited storage call is rejected and changes no row
Fail(c) ==
  /\ c \in InFlight
  /\ calls' = [calls EXCEPT ![c] = afterFailure(calls[c], HandleClosed)]
  /\ UNCHANGED <<contacts, now, base, sequential>>

\* createContact runs its INSERT and is rejected by the SELECT that reads
\* the new row back: the row is stored and the call fails
FailAfterInsert(c) ==
  /\ calls[c].pc \in {"create", "attach", "append"}
  /\ LaterSecond
  /\ contacts' = createContact(contacts,
                   [linkPrecedence |-> IF calls[c].pc = "create"
                                       THEN PRIMARY ELSE SECONDARY,
                    email          |-> calls[c].email,
                    phoneNumber    |-> calls[c].phoneNumber,
                    linkedId       |-> IF calls[c].pc = "create"
                                       THEN Absent ELSE calls[c].primaryId], now)
  /\ calls' = [calls EXCEPT ![c] = afterFailure(calls[c], HandleClosed)]
  /\ UNCHANGED <<now, base, sequential>>

\* The storage call that call c awaits returns, with a result or a failure.
\* With one request at a time a merge never finds new information (the
\* primaries it merges are matched contacts, which carry the request's
\* email and phone between them), so no call comes to await the
\* createSecondaryContact of mergePrimaryContacts.
Return(c) ==
  \/ Lookup(c) \/ CreatePrimary(c) \/ AttachSecondary(c)
  \/ Convert(c) \/ Repoint(c) \/ CheckNewInformation(c)
  \/ BuildResponse(c)
  \/ Fail(c) \/ FailAfterInsert(c)

NextInterrupted ==
  \/ \E c \in CallIds : BeginAlone(c) \/ Return(c)
  \/ Settle
  \/ TickConcurrent

\* one request at a time, handled await by await; any storage call may
\* reject
SpecInterrupted == Init /\ [][NextInterrupted]_vars

\* one request at a time, over the first NumValuesFair emails and phones
BeginFair(c) ==
  /\ BeginAlone(c)
  /\ calls'[c].email <= NumValuesFair
  /\ calls'[c].phoneNumber <= NumValuesFair

NextInterruptedFair ==
  \/ \E c \in CallIds : BeginFair(c) \/ Return(c)
  \/ Settle
  \/ TickConcurrent

\* and every storage call that is awaited returns eventually
SpecInterruptedFair ==
  /\ Init /\ [][NextInterruptedFair]_vars
  /\ WF_vars(\E c \in CallIds : Return(c))

\* ------------------------------------------------------ vocabulary of claims
\* the primary a contact counts under: itself, or the one it is linked to
PrimaryOf(c) == IF c.linkPrecedence = PRIMARY THEN c.id ELSE c.linkedId

SharesValue(a, b) ==
  \/ (a.email # Absent /\ a.email = b.email)
  \/ (a.phoneNumber # Absent /\ a.phoneNumber = b.phoneNumber)

\* ids of the contacts of table that carry the request's email or phone
MatchedIds(table, req) ==
  {i \in 1..Len(table) :
     \/ (req.email # Absent /\ table[i].email = req.email)
     \/ (req.phoneNumber # Absent /\ table[i].phoneNumber = req.phoneNumber)}

ClusterIds(table, p) == {i \in 1..Len(table) : PrimaryOf(table[i]) = p}

\* the service was called and has returned or thrown
Returned == response.status \in {"ok", "error"}

SeqRange(s) == {s[k] : k \in 1..Len(s)}

\* C1: any two stored contacts that share an email or a phone number resolve
\* to the same primary contact.
C1_SharedValueSameCluster ==
  \A i, j \in 1..Len(contacts) :
    SharesValue(contacts[i], contacts[j])
      => PrimaryOf(contacts[i]) = PrimaryOf(contacts[j])

\* C2: every SECONDARY contact is linked to an existing PRIMARY contact and
\* no PRIMARY contact has a linkedId.
C2_LinksPointAtPrimaries ==
  \A i \in 1..Len(contacts) :
    /\ contacts[i].linkPrecedence = PRIMARY => contacts[i].linkedId = Absent
    /\ contacts[i].linkPrecedence = SECONDARY =>
         /\ contacts[i].linkedId \in 1..Len(contacts)
         /\ contacts[i].linkedId # i
         /\ contacts[contacts[i].linkedId].linkPrecedence = PRIMARY

\* C3: the primaries counted for a request are exactly the primaries of its
\* matched contacts, also of those whose primary did not match; a request
\* that matches only secondaries of primary P is answered with P.
C3_PrimaryThroughLinkedId ==
  (Returned /\ MatchedIds(before, request) # {}) =>
    /\ SeqRange(primaries) = {PrimaryOf(before[i]) : i \in MatchedIds(before, request)}
    /\ \A p \in 1..Len(before) :
         (\A i \in MatchedIds(before, request) :
            before[i].linkPrecedence = SECONDARY /\ before[i].linkedId = p)
           => response.status = "ok" /\ response.primaryContactId = p

\* C4: a request that matches a contact of the cluster of primary A and one
\* of the cluster of a primary B created later returns A, leaves A PRIMARY,
\* makes B SECONDARY under A and repoints every contact linked to B to A.
C4_OldestWinsMerge ==
  Returned =>
    \A a, b \in 1..Len(before) :
      ( /\ before[a].linkPrecedence = PRIMARY
        /\ before[b].linkPrecedence = PRIMARY
        /\ before[a].createdAt < before[b].createdAt
        /\ MatchedIds(before, request) \cap ClusterIds(before, a) # {}
        /\ MatchedIds(before, request) \cap ClusterIds(before, b) # {} )
      => /\ response.status = "ok"
         /\ response.primaryContactId = a
         /\ contacts[a].linkPrecedence = PRIMARY
         /\ \A i \in ClusterIds(before, b) :
              contacts[i].linkPrecedence = SECONDARY /\ contacts[i].linkedId = a

\* C5: every contact counts under a contact that is PRIMARY and that has the
\* smallest id of its cluster.
C5_PrimaryIsSmallestId ==
  \A i \in 1..Len(contacts) :
    LET p == PrimaryOf(contacts[i]) IN
      /\ p \in 1..Len(contacts)
      /\ contacts[p].linkPrecedence = PRIMARY
      /\ p <= i

\* C6: no Identify call on a valid request ends in an error.
C6_NoInternalError == response.status # "error"

\* C7: a request with exactly the email and phone of an existing PRIMARY
\* contact creates no contact and returns that contact's id.
C7_ExactPrimaryIsIdempotent ==
  Returned =>
    \A i \in 1..Len(before) :
      ( /\ before[i].linkPrecedence = PRIMARY
        /\ before[i].email = request.email
        /\ before[i].phoneNumber = request.phoneNumber )
      => /\ Len(contacts) = Len(before)
         /\ response.status = "ok"
         /\ response.primaryContactId = i

\* the table holds one contact only, a primary with both an email and a phone
SinglePrimary(table) ==
  /\ Len(table) = 1
  /\ table[1].linkPrecedence = PRIMARY
  /\ table[1].email # Absent
  /\ table[1].phoneNumber # Absent

\* C8: on a single primary {a, p}, a request {a, q} with q new creates one
\* SECONDARY linked to it and lists phoneNumbers [p, q] and one secondary id;
\* a request {a, p} creates nothing; likewise with email and phone swapped.
C8_NewInformationDetection ==
  (Returned /\ SinglePrimary(before)) =>
    LET P == before[1] IN
    /\ ( /\ request.email = P.email
         /\ request.phoneNumber # Absent
         /\ request.phoneNumber # P.phoneNumber )
       => /\ Len(contacts) = 2
          /\ contacts[1] = P
          /\ contacts[2].linkPrecedence = SECONDARY
          /\ contacts[2].linkedId = 1
          /\ response.status = "ok"
          /\ response.primaryContactId = 1
          /\ response.emails = <<P.email>>
          /\ response.phoneNumbers = <<P.phoneNumber, request.phoneNumber>>
          /\ response.secondaryContactIds = <<2>>
    /\ ( /\ request.phoneNumber = P.phoneNumber
         /\ request.email # Absent
         /\ request.email # P.email )
       => /\ Len(contacts) = 2
          /\ contacts[1] = P
          /\ contacts[2].linkPrecedence = SECONDARY
          /\ contacts[2].linkedId = 1
          /\ response.status = "ok"
          /\ response.primaryContactId = 1
          /\ response.emails = <<P.email, request.email>>
          /\ response.phoneNumbers = <<P.phoneNumber>>
          /\ response.secondaryContactIds = <<2>>
    /\ (request.email = P.email /\ request.phoneNumber = P.phoneNumber)
       => contacts = before

C8_Witness ==
  /\ Returned
  /\ SinglePrimary(before)
  /\ request.email = before[1].email
  /\ request.phoneNumber \notin {Absent, before[1].phoneNumber}
  /\ Len(contacts) = 2
  /\ response.secondaryContactIds = <<2>>

C10_MergeScenario ==
  ( /\ Returned
    /\ Len(before) = 2
    /\ before[1].linkPrecedence = PRIMARY
    /\ before[2].linkPrecedence = PRIMARY
    /\ before[1].email # Absent /\ before[1].phoneNumber # Absent
    /\ before[2].email # Absent /\ before[2].phoneNumber # Absent
    /\ request.email = before[1].email
    /\ request.phoneNumber = before[2].phoneNumber )
  => /\ response.status = "ok"
     /\ response.primaryContactId = 1
     /\ response.emails = <<before[1].email, before[2].email>>
     /\ response.phoneNumbers = <<before[1].phoneNumber, before[2].phoneNumber>>
     /\ response.secondaryContactIds = <<2>>
     /\ Len(contacts) = 2

\* the request pairs the email of primary a with the phone of primary b,
\* a created before b
MergePairing(a, b) ==
  /\ Returned
  /\ a \in 1..Len(before) /\ b \in 1..Len(before) /\ a < b
  /\ before[a].linkPrecedence = PRIMARY
  /\ before[b].linkPrecedence = PRIMARY
  /\ request.email # Absent /\ request.email = before[a].email
  /\ request.phoneNumber # Absent /\ request.phoneNumber = before[b].phoneNumber

NoDuplicates(s) == \A k, l \in 1..Len(s) : s[k] = s[l] => k = l

\* ids of the contacts linked to primary p
LinkedTo(table, p) ==
  {i \in 1..Len(table) : table[i].linkedId = p /\ table[i].deletedAt = Absent}

\* the first contact linked to p, in creation (id) order, that carries value
\* v in field f; 0 when there is none
FirstSeenOn(table, p, f, v) ==
  LET on == {i \in LinkedTo(table, p) : table[i][f] = v}
  IN IF on = {} THEN 0 ELSE Min(on)

\* list holds the primary's own value first (when it has one) and then
\* values of its secondaries, each once, in the order of the secondaries
\* they are first seen on
PrimaryFirstThenCreationOrder(table, p, f, list) ==
  LET own == table[p][f]
      rest == IF own # Absent THEN 2..Len(list) ELSE 1..Len(list)
  IN /\ own # Absent => (Len(list) >= 1 /\ list[1] = own)
     /\ NoDuplicates(list)
     /\ \A k \in rest : FirstSeenOn(table, p, f, list[k]) # 0
     /\ \A k, l \in rest :
          k < l => FirstSeenOn(table, p, f, list[k]) < FirstSeenOn(table, p, f, list[l])

\* C12: in a successful response emails[0] / phoneNumbers[0] is the primary's
\* own value when it has one, every entry is unique, and the later entries
\* follow the creation order of the secondaries they are first seen on.
C12_ProjectionOrdering ==
  response.status = "ok" =>
    /\ PrimaryFirstThenCreationOrder(contacts, response.primaryContactId,
                                     "email", response.emails)
    /\ PrimaryFirstThenCreationOrder(contacts, response.primaryContactId,
                                     "phoneNumber", response.phoneNumbers)

\* C13: in a successful response primaryContactId is a PRIMARY contact of the
\* store, secondaryContactIds lists exactly the contacts linked to it, each
\* once, in creation order, and emails / phoneNumbers hold exactly the
\* non-empty values of those contacts and the primary.
C13_ProjectionIsTheCluster ==
  response.status = "ok" =>
    LET p == response.primaryContactId
        ids == response.secondaryContactIds
        members == LinkedTo(contacts, p) \cup {p}
    IN /\ p \in 1..Len(contacts)
       /\ contacts[p].linkPrecedence = PRIMARY
       /\ SeqRange(ids) = LinkedTo(contacts, p)
       /\ p \notin SeqRange(ids)
       /\ NoDuplicates(ids)
       /\ \A k, l \in 1..Len(ids) : k < l => ids[k] < ids[l]
       /\ SeqRange(response.emails) =
            {contacts[i].email : i \in members} \ {Absent}
       /\ SeqRange(response.phoneNumbers) =
            {contacts[i].phoneNumber : i \in members} \ {Absent}

\* C16: no step removes a contact or changes the id, email or phone of a
\* contact that exists already; only linkPrecedence, linkedId and updatedAt
\* of an existing contact may change.
C16_ValuesAreNeverRewritten ==
  [][ /\ Len(contacts') >= Len(contacts)
      /\ \A i \in 1..Len(contacts) :
           /\ contacts'[i].id = contacts[i].id
           /\ contacts'[i].email = contacts[i].email
           /\ contacts'[i].phoneNumber = contacts[i].phoneNumber
           /\ contacts'[i].createdAt = contacts[i].createdAt
           /\ contacts'[i].deletedAt = contacts[i].deletedAt ]_vars

C16_Witness ==
  /\ path = "merge"
  /\ \E i, j \in 1..Len(before) :
       /\ before[i].linkPrecedence = PRIMARY
       /\ before[i].email # Absent
       /\ contacts[i].linkPrecedence = SECONDARY
       /\ contacts[i].email = before[i].email
       /\ before[j].linkedId = i
       /\ contacts[j].linkedId = contacts[i].linkedId
       /\ contacts[j].linkedId # i

\* C17: a request with neither an email nor a phoneNumber is answered with
\* status 400 and error 'Validation failed', the service is not called and
\* the contacts table is unchanged.
C17_EmptyRequestIsRejected ==
  (response.status # "none" /\ request.email = Absent /\ request.phoneNumber = Absent)
    => /\ reply = Http(400, "Validation failed")
       /\ response.status = "invalid"
       /\ path = "invalid"
       /\ contacts = before

C17_Witness ==
  /\ response.status = "invalid"
  /\ request.email = Absent /\ request.phoneNumber = Absent
  /\ reply.status = 400
  /\ Len(contacts) = 2
  /\ contacts = before

\* the three kinds of failure, by the message of the error
StorageUnavailable == {HandleClosed}
ConstraintViolation == {ForeignKeyFailed}
InvariantViolation == {"Primary contact not found", "No primary contact found to merge"}

FailureKind(message) ==
  IF message \in StorageUnavailable THEN "StorageUnavailable"
  ELSE IF message \in ConstraintViolation THEN "ConstraintViolation"
  ELSE IF message \in InvariantViolation THEN "InvariantViolation"
  ELSE "other"

\* C18: a failure of one kind is answered differently (status or error
\* label) from every failure of another kind, and a storage failure is
\* answered with status 500.
C18_FailuresAreDistinguished ==
  (response.status = "error" /\ FailureKind(response.error) # "other") =>
    /\ \A m \in StorageUnavailable \cup ConstraintViolation \cup InvariantViolation :
         FailureKind(m) # FailureKind(response.error) => errorHandler(m) # reply
    /\ response.error \in StorageUnavailable \cup ConstraintViolation
         => reply.status = 500

\* C19: the list of primaries computed from the matched contacts names each
\* primary at most once, whatever order the lookup returns them in, and one
\* cluster alone is never sent to the merge path.
C19_PrimariesAreDeduplicated ==
  Returned =>
    /\ NoDuplicates(primaries)
    /\ path = "merge" => Cardinality(SeqRange(primaries)) # 1

\* C20: the primary that survives a merge of distinct primaries is the one
\* with the smallest id among them, also when they carry equal createdAt.
C20_SmallestIdSurvivesMerge ==
  (Returned /\ path = "merge" /\ primaries # <<>> /\ NoDuplicates(primaries)) =>
    LET survivor == Min(SeqRange(primaries)) IN
    /\ contacts[survivor].linkPrecedence = PRIMARY
    /\ \A i \in SeqRange(primaries) \ {survivor} :
         contacts[i].linkPrecedence = SECONDARY /\ contacts[i].linkedId = survivor
    /\ response.status = "ok" => response.primaryContactId = survivor

\* the table without its timestamps
Strip(table) ==
  [i \in 1..Len(table) |->
     [id |-> table[i].id, email |-> table[i].email,
      phoneNumber |-> table[i].phoneNumber, linkedId |-> table[i].linkedId,
      linkPrecedence |-> table[i].linkPrecedence]]

\* the tables two calls leave when the second begins after the first has
\* returned, each in a second of its own
SerialTables(table, first, second) ==
  UNION { {o2.table : o2 \in identify(o1.table, second.email, second.phoneNumber,
                                       MaxClockConcurrent + 2)} :
          o1 \in identify(table, first.email, first.phoneNumber,
                          MaxClockConcurrent + 1) }

BothDone == calls[1].pc = "done" /\ calls[2].pc = "done"

\* C14: two overlapping calls that carry the same email (or phone), stored
\* nowhere when they began, do not both take the create path, and leave at
\* most one PRIMARY contact with that email (or phone).
C14_NoCompetingPrimaries ==
  BothDone =>
    /\ \A e \in Emails \ UsedEmails(base) :
         (calls[1].email = e /\ calls[2].email = e) =>
           /\ ~(calls[1].path = "create" /\ calls[2].path = "create")
           /\ Cardinality({i \in 1..Len(contacts) :
                  contacts[i].linkPrecedence = PRIMARY /\ contacts[i].email = e}) <= 1
    /\ \A q \in Phones \ UsedPhones(base) :
         (calls[1].phoneNumber = q /\ calls[2].phoneNumber = q) =>
           /\ ~(calls[1].path = "create" /\ calls[2].path = "create")
           /\ Cardinality({i \in 1..Len(contacts) :
                  contacts[i].linkPrecedence = PRIMARY /\ contacts[i].phoneNumber = q}) <= 1

\* call a attaches to, or merges under, primary p while call b merges p
\* under an older primary
OverlapOn(a, b, p) ==
  /\ p \in 1..Len(base) /\ base[p].linkPrecedence = PRIMARY
  /\ calls[a].path \in {"attach", "merge"}
  /\ calls[a].primaryId = p
  /\ calls[b].path = "merge"
  /\ p \in SeqRange(calls[b].primaryIds)
  /\ calls[b].primaryId # p

\* C15: after two overlapping calls, one attaching to or merging under a
\* primary that the other merges under an older primary, every SECONDARY
\* contact is linked to a PRIMARY contact and the table is the one some
\* serial order of the two calls produces.
C15_OverlappingCallsSerialize ==
  (BothDone /\ \E p \in 1..Len(base) : OverlapOn(1, 2, p) \/ OverlapOn(2, 1, p)) =>
    /\ \A i \in 1..Len(contacts) :
         contacts[i].linkPrecedence = SECONDARY =>
           /\ contacts[i].linkedId \in 1..Len(contacts)
           /\ contacts[contacts[i].linkedId].linkPrecedence = PRIMARY
    /\ Strip(contacts) \in
         {Strip(t) : t \in SerialTables(base, calls[1], calls[2])
                           \cup SerialTables(base, calls[2], calls[1])}

\* the contact the last call appended to the table
NewContact == contacts[Len(contacts)]

\* C21: every contact created by the attach path is stored SECONDARY, linked
\* to the primaryContactId that the same request returns, and carries the
\* whole request: its email and its phone number, not only the new value.
C21_AttachStoresWholeRequest ==
  (Returned /\ path = "attach") =>
    /\ Len(contacts) = Len(before) + 1
    /\ NewContact.linkPrecedence = SECONDARY
    /\ response.status = "ok"
    /\ NewContact.linkedId = response.primaryContactId
    /\ NewContact.email = request.email
    /\ NewContact.phoneNumber = request.phoneNumber

\* the primaries reachable from the contacts that match the request: each
\* matched contact counts under itself or under the one it is linked to
ReachablePrimaries(table, req) ==
  {PrimaryOf(table[i]) : i \in MatchedIds(table, req)}

\* the path a request is to take on a table: create when nothing matches,
\* merge when the matches reach several primaries, and with one primary P
\* attach or duplicate as the request differs from P's own values or not
DecidedPath(table, req) ==
  IF MatchedIds(table, req) = {} THEN "create"
  ELSE IF Cardinality(ReachablePrimaries(table, req)) # 1 THEN "merge"
  ELSE LET P == table[CHOOSE p \in ReachablePrimaries(table, req) : TRUE]
       IN IF \/ (req.email # Absent /\ P.email # req.email)
             \/ (req.phoneNumber # Absent /\ P.phoneNumber # req.phoneNumber)
          THEN "attach" ELSE "duplicate"

\* C22: a request that takes the create path, the attach path or the
\* pure-duplicate path leaves every contact that existed before it unchanged
\* in every field, and the pure-duplicate path leaves the whole table
\* unchanged; only the merge path modifies existing contacts.
C22_OnlyMergeModifiesContacts ==
  (Returned /\ DecidedPath(before, request) \in {"create", "attach", "duplicate"}) =>
    /\ Len(contacts) >= Len(before)
    /\ \A i \in 1..Len(before) : contacts[i] = before[i]
    /\ DecidedPath(before, request) = "duplicate" => contacts = before

\* the contacts of the clusters under the primaries that are merged
MergedIds == UNION {ClusterIds(before, p) : p \in SeqRange(primaries)}

\* C23: a merge of the clusters under two primaries or more leaves one
\* cluster under one of them, O: it holds every contact of the merged
\* clusters, all but O as secondaries of O, and at most one contact that is
\* new, and no contact is linked to any of the other primaries any more.
C23_MergeUnitesClusters ==
  (Returned /\ path = "merge" /\ Cardinality(SeqRange(primaries)) >= 2) =>
    \E O \in SeqRange(primaries) :
      /\ contacts[O].linkPrecedence = PRIMARY
      /\ MergedIds \subseteq ClusterIds(contacts, O)
      /\ Len(contacts) <= Len(before) + 1
      /\ ClusterIds(contacts, O) \ MergedIds \subseteq (Len(before) + 1)..Len(contacts)
      /\ \A X \in SeqRange(primaries) \ {O} :
           \A i \in 1..Len(contacts) : contacts[i].linkedId # X

\* C24: in every step a contact that is SECONDARY stays in the table under
\* its id and stays SECONDARY, and the number of contacts does not decrease.
C24_SecondariesStay ==
  [][ /\ Len(contacts') >= Len(contacts)
      /\ \A i \in 1..Len(contacts) :
           contacts[i].linkPrecedence = SECONDARY
             => /\ contacts'[i].id = contacts[i].id
                /\ contacts'[i].linkPrecedence = SECONDARY ]_vars

\* a merge has repointed a contact that was SECONDARY already
C24_Witness ==
  /\ Returned /\ path = "merge"
  /\ \E i \in 1..Len(before) :
       /\ before[i].linkPrecedence = SECONDARY
       /\ contacts[i].linkPrecedence = SECONDARY
       /\ contacts[i].linkedId # before[i].linkedId

\* the request repeats the email and the phone of contact i of table
RepeatsContact(table, req, i) ==
  table[i].email = req.email /\ table[i].phoneNumber = req.phoneNumber

\* C25: in the single-primary branch the request is compared with the
\* primary only: a request that repeats the email and phone of a secondary
\* of the primary and differs from the primary's own values creates one more
\* SECONDARY with the same email and phone, however many carry them already.
C25_AttachComparesPrimaryOnly ==
  (Returned /\ Len(primaries) = 1) =>
    LET P == before[primaries[1]] IN
    \A s \in 1..Len(before) :
      ( /\ before[s].linkPrecedence = SECONDARY
        /\ before[s].linkedId = P.id
        /\ RepeatsContact(before, request, s)
        /\ ~RepeatsContact(before, request, P.id) )
      => /\ path = "attach"
         /\ Len(contacts) = Len(before) + 1
         /\ NewContact.linkPrecedence = SECONDARY
         /\ NewContact.linkedId = P.id
         /\ NewContact.email = before[s].email
         /\ NewContact.phoneNumber = before[s].phoneNumber

\* the request has been repeated: two secondaries carried its email and
\* phone already, and a third one is stored
C25_Witness ==
  /\ Returned /\ path = "attach" /\ Len(primaries) = 1
  /\ Len(contacts) = Len(before) + 1
  /\ \E s, r \in 1..Len(before) :
       /\ s # r
       /\ before[s].linkPrecedence = SECONDARY /\ before[s].linkedId = primaries[1]
       /\ before[r].linkPrecedence = SECONDARY /\ before[r].linkedId = primaries[1]
       /\ RepeatsContact(before, request, s)
       /\ RepeatsContact(before, request, r)
       /\ RepeatsContact(contacts, request, Len(contacts))

\* ids of the contacts of table whose deletedAt is set
Deleted(table) == {i \in 1..Len(table) : table[i].deletedAt # Absent}

\* C28: a contact whose deletedAt is set is in the result of no lookup and of
\* no cluster fetch; a request that matches deleted contacts only creates a
\* new primary; no deleted contact is selected as a primary; and a response
\* names no deleted id and only emails and phones of contacts not deleted.
C28_DeletedContactsAreInvisible ==
  /\ \A email \in {Absent} \cup Emails, phoneNumber \in {Absent} \cup Phones :
       \A cs \in findContactsByEmailOrPhone(contacts, email, phoneNumber) :
         \A k \in 1..Len(cs) : cs[k].deletedAt = Absent
  /\ \A p \in 1..Len(contacts) :
       \A cs \in findAllLinkedContacts(contacts, p) :
         \A k \in 1..Len(cs) : cs[k].deletedAt = Absent
  /\ Returned =>
       /\ MatchedIds(before, request) \subseteq Deleted(before) => path = "create"
       /\ SeqRange(primaries) \cap Deleted(before) = {}
       /\ response.status = "ok" =>
            LET live == (1..Len(contacts)) \ Deleted(contacts) IN
            /\ response.primaryContactId \in live
            /\ SeqRange(response.secondaryContactIds) \subseteq live
            /\ SeqRange(response.emails) \subseteq {contacts[i].email : i \in live}
            /\ SeqRange(response.phoneNumbers)
                 \subseteq {contacts[i].phoneNumber : i \in live}

\* a cluster is returned while one of its secondaries is deleted
C28_Witness ==
  /\ Returned /\ response.status = "ok"
  /\ \E i \in Deleted(contacts) :
       /\ contacts[i].linkedId = response.primaryContactId
       /\ ~(\E k \in 1..Len(response.secondaryContactIds) :
              response.secondaryContactIds[k] = i)
       /\ i \in MatchedIds(before, request)

\* C29: for a request with an email, a phone or both, the lookup returns
\* the contacts that are not deleted and carry the request's email or the
\* request's phone, all of them and no other, each once, in ascending order
\* of creation (of id); a value the request lacks selects nothing, not even
\* the contacts that lack it too.
C29_LookupIsExactAndOrdered ==
  \A email \in {Absent} \cup Emails, phoneNumber \in {Absent} \cup Phones :
    (email # Absent \/ phoneNumber # Absent) =>
      \A cs \in findContactsByEmailOrPhone(contacts, email, phoneNumber) :
        /\ \A k \in 1..Len(cs) :
             /\ cs[k] = contacts[cs[k].id]
             /\ cs[k].deletedAt = Absent
             /\ \/ (email # Absent /\ cs[k].email = email)
                \/ (phoneNumber # Absent /\ cs[k].phoneNumber = phoneNumber)
        /\ \A i \in 1..Len(contacts) :
             ( /\ contacts[i].deletedAt = Absent
               /\ \/ (email # Absent /\ contacts[i].email = email)
                  \/ (phoneNumber # Absent /\ contacts[i].phoneNumber = phoneNumber) )
             => \E k \in 1..Len(cs) : cs[k].id = i
        /\ \A k, l \in 1..Len(cs) : k < l => cs[k].id < cs[l].id

\* a storage call of call c has rejected
HasFailed(c) == calls[c].rejected # ""

\* C26: once a storage call of an Identify call has failed, the call is over
\* with that failure as its result: it issues no storage call any more (the
\* table stays as the failed call left it, the call takes no further step)
\* until the failure has been handed to the caller.
C26_NoStorageCallAfterFailure ==
  [][ \A c \in CallIds :
        HasFailed(c) =>
          /\ calls[c].pc = "done"
          /\ calls[c].response = Thrown(calls[c].rejected)
          /\ replyFor(calls[c].response).status = 500
          /\ contacts' = contacts
          /\ calls'[c] \in {calls[c], IdleCall} ]_vars

\* a merge has failed at the repointing, after a conversion was written
C26_Witness ==
  \E c \in CallIds :
    /\ HasFailed(c)
    /\ calls[c].path = "merge"
    /\ calls[c].contactsToMerge # <<>>
    /\ contacts[Head(calls[c].contactsToMerge)].linkPrecedence = SECONDARY
    /\ base[Head(calls[c].contactsToMerge)].linkPrecedence = PRIMARY

\* C27: every Identify call that has begun ends, with a projection or with
\* an error, provided each storage call it awaits returns.
C27_EveryCallTerminates == (InFlight # {}) ~> (InFlight = {})

\* a call has ended after going through the loop of a merge
C27_Witness ==
  \E c \in CallIds :
    /\ calls[c].pc = "done"
    /\ calls[c].path = "merge"
    /\ calls[c].response.status = "ok"
    /\ Len(calls[c].response.secondaryContactIds) >= 1
    /\ Len(contacts) = Len(base)

\* C30: when a storage call fails part-way through the merge path, the
\* table left behind has no SECONDARY contact whose linkedId points at a
\* SECONDARY contact.
C30_FailedMergeKeepsLinks ==
  (\E c \in CallIds : HasFailed(c) /\ calls[c].path = "merge") =>
    \A i, j \in 1..Len(contacts) :
      ( /\ contacts[i].linkPrecedence = SECONDARY
        /\ contacts[i].linkedId = contacts[j].id )
      => contacts[j].linkPrecedence # SECONDARY

\* C31: with requests handled one at a time from an empty table, no two
\* PRIMARY contacts hold the same email and no two hold the same phone.
C31_PrimariesShareNoValue ==
  \A i, j \in 1..Len(contacts) :
    ( /\ i # j
      /\ contacts[i].linkPrecedence = PRIMARY
      /\ contacts[j].linkPrecedence = PRIMARY )
    => ~SharesValue(contacts[i], contacts[j])

\* two primaries are stored and a request that carries a value of one of
\* them and a value no contact holds has been attached to it
C31_Witness ==
  /\ Returned /\ path = "attach"
  /\ Cardinality({i \in 1..Len(contacts) : contacts[i].linkPrecedence = PRIMARY}) >= 2
  /\ NewContact.linkPrecedence = SECONDARY
  /\ SharesValue(NewContact, contacts[NewContact.linkedId])

\* C32: with requests handled one at a time from an empty table, a request
\* on the merge path finds exactly two distinct primaries and creates no
\* contact (its new-information check is false): the number of contacts
\* stays as it was.
C32_MergeFindsTwoAndCreatesNone ==
  (Returned /\ path = "merge") =>
    /\ Len(primaries) = 2
    /\ primaries[1] # primaries[2]
    /\ Len(contacts) = Len(before)

\* C33: in every step of requests handled one at a time, the primary a
\* contact counts under keeps its id or, through a merge only, gives way to
\* a primary with a smaller id.
C33_ClusterPrimaryNeverIncreases ==
  [][ \A i \in 1..Len(contacts) :
        /\ PrimaryOf(contacts'[i]) <= PrimaryOf(contacts[i])
        /\ PrimaryOf(contacts'[i]) # PrimaryOf(contacts[i]) => path' = "merge" ]_vars

\* the projection resp holds the email and the phone of the request req
Covers(resp, req) ==
  /\ req.email # Absent => req.email \in SeqRange(resp.emails)
  /\ req.phoneNumber # Absent => req.phoneNumber \in SeqRange(resp.phoneNumbers)

\* C34: whenever Identify returns a projection, the request's email, if
\* given, is one of the returned emails and the request's phone, if given,
\* is one of the returned phoneNumbers; for a request handled alone and for
\* each of the calls in flight together.
C34_ResponseCoversRequest ==
  /\ (Returned /\ response.status = "ok") => Covers(response, request)
  /\ \A c \in CallIds :
       (calls[c].pc = "done" /\ calls[c].response.status = "ok")
         => Covers(calls[c].response, calls[c])

\* C35: a request creates at most one contact; every stored contact has an
\* email or a phone; the create path and the attach path (the decision that
\* a secondary is needed) create exactly one contact and the pure-duplicate
\* path creates none.
C35_AtMostOneContactPerRequest ==
  /\ \A i \in 1..Len(contacts) :
       contacts[i].email # Absent \/ contacts[i].phoneNumber # Absent
  /\ Returned =>
       /\ Len(contacts) \in {Len(before), Len(before) + 1}
       /\ path \in {"create", "attach"} => Len(contacts) = Len(before) + 1
       /\ path = "duplicate" => Len(contacts) = Len(before)

\* a request that repeats its primary's values has returned the cluster,
\* secondaries included, and has stored nothing
C35_Witness ==
  /\ Returned /\ path = "duplicate" /\ response.status = "ok"
  /\ Len(response.secondaryContactIds) >= 2
  /\ Len(contacts) = Len(before)

====
